---- MODULE Spec2Model ----
(***************************************************************************)
(* ioutils/maxstdio: the C shim CGetMaxSTDIO / CSetMaxSTDIO over the       *)
(* Windows C runtime's _getmaxstdio / _setmaxstdio.                        *)
(*                                                                         *)
(* The shim's own code is two return statements; everything observable is  *)
(* decided by the two CRT primitives it calls.  They are external to the   *)
(* repository and are modelled by their documented contract (Microsoft C   *)
(* runtime reference, _getmaxstdio / _setmaxstdio):                        *)
(*   _getmaxstdio()   returns the number of simultaneously open streams    *)
(*                    currently permitted; changes nothing.                *)
(*   _setmaxstdio(n)  returns n if successful, -1 otherwise.  n below      *)
(*                    _IOB_ENTRIES or above the handle limit is rejected   *)
(*                    (invalid parameter, -1, ceiling unchanged).  An      *)
(*                    accepted n can still fail (the stream table cannot   *)
(*                    be reallocated, or streams in the part to be cut     *)
(*                    off are in use): -1, ceiling unchanged.              *)
(* The CRT serialises _setmaxstdio internally, so each primitive is one    *)
(* atomic step; the shim adds no lock of its own.  The invalid parameter   *)
(* handler is taken to let execution continue, as the reference describes. *)
(***************************************************************************)
EXTENDS Integers, FiniteSets

\* ---- bounds of the model
NumThreads == 2

Threads == 1..NumThreads

\* ---- platform constants of the CRT behind the two calls
IOB_ENTRIES == 3
NSTREAM_MAX == 8192
NSTREAM_DEFAULT == 512

\* The int arguments the callers pass: negative, zero, the lowest accepted
\* value, an ordinary one, and one above the highest accepted value.
Args == {-1, 0, IOB_ENTRIES, 2048, NSTREAM_MAX + 1}

VARIABLES
    nstream,    \* the CRT's process-wide ceiling
    pc,         \* pc[t]: "idle" | "called" | "returned"
    op,         \* op[t]: "none" | "get" | "set", the wrapper thread t is in
    arg,        \* arg[t]: new_max of the pending or last CSetMaxSTDIO, as {n}
    ret,        \* ret[t]: the int the last call returned, as {r}; {} before
    \* ---- the primitives called directly, in lockstep (reference run)
    refn,       \* the ceiling of a process driven by the bare primitives
    refret,     \* refret[t]: what the bare primitive returned
    \* ---- history
    everSet,    \* a CSetMaxSTDIO call has been made in this process
    lastSetOk,  \* {n} if the last setter to run succeeded with n, else {}
    prevGet,    \* the get before curGet, no setter having run in between
    curGet,     \* what the last getter returned, no setter having run since
    batch,      \* every thread was inside CSetMaxSTDIO at once, none has called since
    batchPre,   \* the ceiling when that happened
    lastWriter, \* {t}: the thread of the batch whose setter last succeeded
    rt          \* progress of old = Set(n); r = Set(old) in thread rt.who

vars == <<nstream, pc, op, arg, ret, refn, refret, everSet,
          lastSetOk, prevGet, curGet, batch, batchPre, lastWriter, rt>>

\* ---------------------------------------------------------------- the code

\* int _getmaxstdio(void)
_getmaxstdio(ns) == [ret |-> ns, nstream |-> ns]

\* int _setmaxstdio(int new_max); ok: whether the CRT could resize its table
_setmaxstdio(ns, new_max, ok) ==
    IF new_max >= IOB_ENTRIES /\ new_max <= NSTREAM_MAX /\ ok
    THEN [ret |-> new_max, nstream |-> new_max]
    ELSE [ret |-> -1, nstream |-> ns]

\* Variants of the two wrappers, each with one slip a shim like this could
\* have; the properties below are checked to tell them from the code.
\*   the getter calls the wrong primitive
CGetMaxSTDIO_WrongPrimitive(ns) ==
    LET r == _setmaxstdio(ns, 0, TRUE)
    IN  [ret |-> r.ret, nstream |-> r.nstream, pc |-> "returned"]

\*   the getter reads the ceiling and puts the default back
CGetMaxSTDIO_Resets(ns) ==
    [ret |-> ns, nstream |-> NSTREAM_DEFAULT, pc |-> "returned"]

\*   the setter passes new_max - 1
CSetMaxSTDIO_OffByOne(ns, new_max, ok) ==
    LET r == _setmaxstdio(ns, new_max - 1, ok)
    IN  [ret |-> r.ret, nstream |-> r.nstream, pc |-> "returned"]

\*   the setter clamps new_max to the highest accepted value
CSetMaxSTDIO_Clamps(ns, new_max, ok) ==
    LET r == _setmaxstdio(ns, IF new_max > NSTREAM_MAX THEN NSTREAM_MAX ELSE new_max, ok)
    IN  [ret |-> r.ret, nstream |-> r.nstream, pc |-> "returned"]

\*   the setter calls the primitive again while it reports failure
CSetMaxSTDIO_Retries(ns, new_max, ok) ==
    LET r == _setmaxstdio(ns, new_max, ok)
    IN  [ret |-> r.ret, nstream |-> r.nstream,
         pc |-> IF r.ret = -1 THEN "called" ELSE "returned"]

\* int CGetMaxSTDIO() { return _getmaxstdio(); }
CGetMaxSTDIO(ns) ==
    LET r == _getmaxstdio(ns)
    IN  [ret |-> r.ret, nstream |-> r.nstream, pc |-> "returned"]

\* int CSetMaxSTDIO(int new_max) { return _setmaxstdio(new_max); }
CSetMaxSTDIO(ns, new_max, ok) ==
    LET r == _setmaxstdio(ns, new_max, ok)
    IN  [ret |-> r.ret, nstream |-> r.nstream, pc |-> "returned"]

\* ---------------------------------------------------------------- state

\* rt.stage: "none" | "first" (Set(n) is called) | "firstdone" (it has run) |
\* "second" (Set(old) is called) | "done" (it has run); rt.who: the thread;
\* rt.n: the first argument; rt.c: the ceiling just before the first call ran.
\* A step of any other thread ends the bookkeeping: the sequence followed is
\* one that runs in a single thread, undisturbed.
NoTrip == [stage |-> "none", who |-> {}, c |-> {}, n |-> {}]

Init ==
    /\ nstream = NSTREAM_DEFAULT
    /\ refn = NSTREAM_DEFAULT
    /\ pc = [t \in Threads |-> "idle"]
    /\ op = [t \in Threads |-> "none"]
    /\ arg = [t \in Threads |-> {}]
    /\ ret = [t \in Threads |-> {}]
    /\ refret = [t \in Threads |-> {}]
    /\ everSet = FALSE
    /\ lastSetOk = {}
    /\ prevGet = {}
    /\ curGet = {}
    /\ batch = FALSE
    /\ batchPre = {}
    /\ lastWriter = {}
    /\ rt = NoTrip

\* Thread t enters CGetMaxSTDIO.
CallGet(t) ==
    /\ pc[t] \in {"idle", "returned"}
    /\ pc' = [pc EXCEPT ![t] = "called"]
    /\ op' = [op EXCEPT ![t] = "get"]
    /\ arg' = [arg EXCEPT ![t] = {}]
    /\ ret' = [ret EXCEPT ![t] = {}]
    /\ refret' = [refret EXCEPT ![t] = {}]
    /\ rt' = NoTrip
    /\ batch' = FALSE
    /\ batchPre' = {}
    /\ lastWriter' = {}
    /\ UNCHANGED <<nstream, refn, everSet, lastSetOk, prevGet, curGet>>

\* Thread t enters CSetMaxSTDIO(n); trip is the round-trip bookkeeping.
EnterSet(t, n, trip) ==
    /\ pc' = [pc EXCEPT ![t] = "called"]
    /\ op' = [op EXCEPT ![t] = "set"]
    /\ arg' = [arg EXCEPT ![t] = {n}]
    /\ ret' = [ret EXCEPT ![t] = {}]
    /\ refret' = [refret EXCEPT ![t] = {}]
    /\ rt' = trip
    /\ everSet' = TRUE
    /\ batch' = (\A u \in Threads : pc'[u] = "called" /\ op'[u] = "set")
    /\ batchPre' = IF batch' THEN {nstream} ELSE {}
    /\ lastWriter' = {}
    /\ UNCHANGED <<nstream, refn, lastSetOk, prevGet, curGet>>

\* Thread t calls CSetMaxSTDIO(n) with an argument of the caller's choice.
CallSet(t, n) ==
    /\ pc[t] \in {"idle", "returned"}
    /\ EnterSet(t, n, [stage |-> "first", who |-> {t}, c |-> {}, n |-> {n}])

\* Thread t feeds the value its CSetMaxSTDIO just returned back into it:
\* old = CSetMaxSTDIO(n); r = CSetMaxSTDIO(old).
CallSetRestore(t) ==
    /\ pc[t] = "returned"
    /\ op[t] = "set"
    /\ rt.who = {t}
    /\ rt.stage = "firstdone"
    /\ \E old \in ret[t] :
          EnterSet(t, old, [rt EXCEPT !.stage = "second"])

\* The body of CGetMaxSTDIO runs in thread t.
GetExec(t) ==
    /\ pc[t] = "called"
    /\ op[t] = "get"
    /\ LET r == CGetMaxSTDIO(nstream)
           d == _getmaxstdio(refn)
       IN  /\ nstream' = r.nstream
           /\ ret' = [ret EXCEPT ![t] = {r.ret}]
           /\ pc' = [pc EXCEPT ![t] = r.pc]
           /\ refn' = d.nstream
           /\ refret' = [refret EXCEPT ![t] = {d.ret}]
           /\ prevGet' = curGet
           /\ curGet' = {r.ret}
    /\ rt' = NoTrip
    /\ UNCHANGED <<op, arg, everSet, lastSetOk, batch, batchPre, lastWriter>>

\* A setter ran in thread t: t's own round trip moves on one stage.
TripAfterSet(t) ==
    IF rt.who # {t} THEN NoTrip
    ELSE IF rt.stage = "first"
         THEN [rt EXCEPT !.stage = "firstdone", !.c = {nstream}]
    ELSE IF rt.stage = "second"
         THEN [rt EXCEPT !.stage = "done"]
    ELSE NoTrip

\* The body of CSetMaxSTDIO runs in thread t.
SetExec(t, ok) ==
    /\ pc[t] = "called"
    /\ op[t] = "set"
    /\ \E n \in arg[t] :
         LET r == CSetMaxSTDIO(nstream, n, ok)
             d == _setmaxstdio(refn, n, ok)
         IN  /\ nstream' = r.nstream
             /\ ret' = [ret EXCEPT ![t] = {r.ret}]
             /\ pc' = [pc EXCEPT ![t] = r.pc]
             /\ refn' = d.nstream
             /\ refret' = [refret EXCEPT ![t] = {d.ret}]
             /\ lastSetOk' = IF r.ret # -1 THEN {n} ELSE {}
             /\ lastWriter' = IF batch /\ r.ret # -1 THEN {t} ELSE lastWriter
             /\ rt' = TripAfterSet(t)
    /\ prevGet' = {}
    /\ curGet' = {}
    /\ UNCHANGED <<op, arg, everSet, batch, batchPre>>

Next ==
    \/ \E t \in Threads : CallGet(t)
    \/ \E t \in Threads : \E n \in Args : CallSet(t, n)
    \/ \E t \in Threads : CallSetRestore(t)
    \/ \E t \in Threads : GetExec(t)
    \/ \E t \in Threads : \E ok \in BOOLEAN : SetExec(t, ok)

Spec == Init /\ [][Next]_vars

\* The body of the wrapper thread t is in.
Exec(t) == GetExec(t) \/ \E ok \in BOOLEAN : SetExec(t, ok)

\* The scheduler eventually runs every thread that is inside a wrapper.
FairSpec == Spec /\ \A t \in Threads : WF_vars(Exec(t))

\* ---------------------------------------------------------------- properties

Returned(t, o) == pc[t] = "returned" /\ op[t] = o

\* C1: CSetMaxSTDIO(n) returns the ceiling that was in effect immediately
\* before the call (what CGetMaxSTDIO would have returned just prior).
\* Stated for the calls the platform did not reject (return value not -1).
C1_SetReturnsPrevious ==
    [][ \A t \in Threads :
          ( /\ pc[t] = "called" /\ op[t] = "set"
            /\ pc'[t] = "returned" /\ ret'[t] # {-1} ) => ret'[t] = {nstream}
      ]_vars

\* C2: after a CSetMaxSTDIO(n) that succeeded, with no other setter call in
\* between, the next CGetMaxSTDIO returns n.
C2_GetObservesSet ==
    (lastSetOk # {} /\ curGet # {}) => curGet = lastSetOk

C2_Witness ==
    /\ lastSetOk = {2048}
    /\ \E t \in Threads : Returned(t, "get") /\ ret[t] = curGet /\ curGet # {}

\* C3: consecutive CGetMaxSTDIO calls with no setter call in between all
\* return the same value.
C3_GetIdempotent ==
    prevGet # {} => prevGet = curGet

C3_Witness ==
    /\ prevGet # {}
    /\ prevGet # {NSTREAM_DEFAULT}
    /\ \A t \in Threads : Returned(t, "get")

\* C4: the ceiling is changed only by CSetMaxSTDIO: a step that changes it is
\* the body of a setter, and the body of a getter leaves it as it was.
C4_OnlySetMutates ==
    [][ /\ (nstream' # nstream) =>
              \E t \in Threads : /\ pc[t] = "called" /\ op[t] = "set"
                                 /\ pc'[t] = "returned"
        /\ \A t \in Threads :
              (pc[t] = "called" /\ op[t] = "get" /\ pc'[t] # pc[t]) =>
                  /\ nstream' = nstream
                  /\ everSet' = everSet
                  /\ \A u \in Threads \ {t} : ret'[u] = ret[u] /\ pc'[u] = pc[u]
      ]_vars

C4_Witness ==
    /\ nstream # NSTREAM_DEFAULT
    /\ \E t \in Threads : Returned(t, "get") /\ ret[t] = {nstream}

\* C5: the wrappers are pass-throughs: run in lockstep on the same calls, the
\* wrappers and the bare primitives return the same values and leave the same
\* ceiling, for every argument (zero, negative and out-of-range included).
C5_PassThrough ==
    /\ nstream = refn
    /\ \A t \in Threads : ret[t] = refret[t]

C5_Witness ==
    \E t, u \in Threads :
        /\ Returned(t, "set") /\ arg[t] = {NSTREAM_MAX + 1} /\ ret[t] = {-1}
        /\ Returned(u, "set") /\ arg[u] = {0} /\ ret[u] = {-1}
        /\ nstream # NSTREAM_DEFAULT

BatchDone == batch /\ \A t \in Threads : pc[t] = "returned"

\* C7 (as stated): when every thread has called CSetMaxSTDIO concurrently and
\* all calls have completed, the ceiling is one of the arguments passed.
C7_LastWriteWins ==
    BatchDone => nstream \in UNION {arg[t] : t \in Threads}

\* C7 (amended): ... the ceiling is the argument of the setter that
\* succeeded last, and the ceiling from before the calls if none succeeded.
C7_LastSuccessfulWriteWins ==
    BatchDone =>
        {nstream} = IF lastWriter = {} THEN batchPre
                    ELSE UNION {arg[t] : t \in lastWriter}

C7_Witness ==
    /\ BatchDone
    /\ \E t \in lastWriter : \E u \in Threads \ {t} :
          ret[u] # {-1} /\ arg[u] # arg[t] /\ {nstream} = arg[t]

\* C8: in a process where CSetMaxSTDIO has never been called, CGetMaxSTDIO
\* returns the platform default, a positive integer.
C8_PristineDefault ==
    (~everSet /\ curGet # {}) =>
        /\ curGet = {NSTREAM_DEFAULT}
        /\ \A v \in curGet : v > 0

C8_Witness ==
    /\ ~everSet
    /\ \E t \in Threads : Returned(t, "get") /\ ret[t] = curGet /\ curGet # {}

\* C9: every started call of either wrapper returns: a thread inside a
\* wrapper, once scheduled, leaves it, whatever the primitive reported.
C9_CallsReturn ==
    \A t \in Threads : (pc[t] = "called") ~> (pc[t] = "returned")

C9_Witness ==
    \E t, u \in Threads :
        /\ Returned(t, "set") /\ ret[t] = {-1}
        /\ Returned(u, "get")

\* C10: in one thread, old = CSetMaxSTDIO(n); r = CSetMaxSTDIO(old), both
\* successful, yields old = c (the ceiling before), r = n, and the ceiling c
\* again.
C10_RoundTrip ==
    \A t \in rt.who :
        (rt.stage = "done" /\ arg[t] # {-1} /\ ret[t] # {-1}) =>
            /\ arg[t] = rt.c
            /\ ret[t] = rt.n
            /\ {nstream} = rt.c

====
